---------------------------- MODULE Spec2Model ----------------------------
(***************************************************************************)
(* Model of the retrofit-prediction service:                               *)
(*   retrofit_planner/src/predict_with_ensemble.py  (EnsemblePredictor)    *)
(*   src/api/routes/retrofit_prediction.py          (HTTP handlers)        *)
(*                                                                         *)
(*   src/model_selector.py                          (model selector)       *)
(*                                                                         *)
(* Four specifications share the definitions below:                       *)
(*   SpecPredict  EnsemblePredictor.prepare_input_data / predict on        *)
(*                concrete small DataFrames and bundles                    *)
(*   SpecLoad     EnsemblePredictor.load_latest_models on directories      *)
(*   Spec         module start-up and the concurrent HTTP handlers         *)
(*   SpecSelect   get_training_model_dir / get_config_for_model on         *)
(*                building types and locations                             *)
(***************************************************************************)
EXTENDS Integers, Sequences, FiniteSets, TLC

VARIABLES
    \* ---- SpecPredict: one EnsemblePredictor with a loaded bundle --------
    ep,         \* the predictor object: model, scaler, label_encoders, feature_info
    data,       \* the caller's DataFrame object passed to predict()
    calls,      \* what each call of predict() did, in call order
    \* ---- SpecLoad: one EnsemblePredictor and its models directory -------
    self,       \* the predictor object: each field None or the loaded file
    dir,        \* models_dir contents: group -> set of file names
    loads,      \* what each call of load_latest_models() did, in call order
    \* ---- Spec: the service process --------------------------------------
    disk,       \* retrofit_planner/output/models as the process finds it
    started,    \* module initialisation of retrofit_prediction.py has run
    boot,       \* what module initialisation did: calls of load_latest_models
    predictor,  \* module-level predictor
    MODEL_AVAILABLE,
    STARTUP_ERROR,
    nreq,       \* HTTP requests received so far
    inflight,   \* /upload requests suspended in await file.read()
    responses,  \* the finished requests, each with its response
    \* ---- SpecSelect: a caller of model_selector.py ----------------------
    lookup      \* the last call: function, arguments, outcome

predictVars == <<ep, data, calls>>
loadVars    == <<self, dir, loads>>
serviceVars == <<disk, started, boot, predictor, MODEL_AVAILABLE, STARTUP_ERROR,
                 nreq, inflight, responses>>
selectVars  == <<lookup>>
vars        == <<ep, data, calls, self, dir, loads,
                 disk, started, boot, predictor, MODEL_AVAILABLE, STARTUP_ERROR,
                 nreq, inflight, responses, lookup>>

-----------------------------------------------------------------------------
(* Generic helpers *)

Range(s) == {s[i] : i \in DOMAIN s}

\* Sequences over S without repetition, of length lo..hi
DistinctSeqs(S, lo, hi) ==
    UNION {{s \in [1..n -> S] : \A i, j \in 1..n : i # j => s[i] # s[j]} : n \in lo..hi}

\* Sequences over S of length 0..n
SeqsUpTo(S, n) == UNION {[1..k -> S] : k \in 0..n}

-----------------------------------------------------------------------------
(* Python / pandas values.  A cell of a DataFrame is a string, a number or  *)
(* missing (NaN / None).                                                    *)

Num(n) == [k |-> "num", n |-> n, s |-> ""]
Str(s) == [k |-> "str", n |-> 0, s |-> s]
NaN    == [k |-> "nan", n |-> 0, s |-> ""]

\* pandas isna()
IsNa(v) == v.k = "nan"

\* Python str(x): a string is itself, an int is its decimal numeral.  The
\* model's ints that reach str() are single digits.
DecimalDigits == <<"0", "1", "2", "3", "4", "5", "6", "7", "8", "9">>
PyStr(v) ==
    CASE v.k = "str" -> v.s
      [] v.k = "num" -> DecimalDigits[v.n + 1]
      [] v.k = "nan" -> "nan"

\* Series.fillna(value)
FillNa(v, value) == IF IsNa(v) THEN value ELSE v

-----------------------------------------------------------------------------
(* pandas DataFrame: [columns |-> sequence of distinct names,               *)
(*                    rows    |-> sequence of [name -> cell]]               *)

\* Variant of Project: keeps the needed columns in the input's own order
Project_InputOrder(df, cols) ==
    [columns |-> SelectSeq(df.columns, LAMBDA c : c \in Range(cols)),
     rows    |-> [i \in DOMAIN df.rows |-> [c \in Range(cols) |-> df.rows[i][c]]]]

\* data[cols]: the frame restricted to cols, in the order of cols
Project(df, cols) ==
    [columns |-> cols,
     rows    |-> [i \in DOMAIN df.rows |-> [c \in Range(cols) |-> df.rows[i][c]]]]

\* X[col] = X[col].fillna(value): every missing cell of one column replaced
FillNaColumn(X, col, value) ==
    [X EXCEPT !.rows = [i \in DOMAIN X.rows |->
                          [X.rows[i] EXCEPT ![col] = FillNa(@, value)]]]

\* df[name] = values: an existing column is overwritten where it stands, a
\* new one is appended as the last column
AssignColumn(df, name, values) ==
    [columns |-> IF name \in Range(df.columns) THEN df.columns
                 ELSE Append(df.columns, name),
     rows    |-> [i \in DOMAIN df.rows |->
                    [c \in Range(df.columns) \cup {name} |->
                        IF c = name THEN values[i] ELSE df.rows[i][c]]]]

-----------------------------------------------------------------------------
(* sklearn LabelEncoder: classes_ is the sorted sequence of known classes;  *)
(* transform([s])[0] is the position of s in classes_ (from 0) and raises   *)
(* ValueError on a label it has not seen.                                   *)

LeTransform(le, s) ==
    IF \E i \in DOMAIN le.classes_ : le.classes_[i] = s
    THEN [ok |-> TRUE, code |-> (CHOOSE i \in DOMAIN le.classes_ : le.classes_[i] = s) - 1]
    ELSE [ok |-> FALSE, code |-> -1]

(* sklearn scaler: an affine map per column, x -> a*x + b, fitted on the    *)
(* columns feature_names_in_.  transform(X) validates X (column names as    *)
(* fitted, at least one sample, every cell convertible to float; NaN is     *)
(* let through) and returns a positional matrix: row i, position j holds    *)
(* the scaled cell of column X.columns[j].                                  *)

ScaleCell(scaler, col, v) ==
    IF IsNa(v) THEN NaN ELSE Num(scaler.a[col] * v.n + scaler.b[col])

ScalerTransform(scaler, X) ==
    IF \/ X.columns # scaler.feature_names_in_
       \/ Len(X.rows) = 0
       \/ \E i \in DOMAIN X.rows : \E c \in Range(X.columns) : X.rows[i][c].k = "str"
    THEN [ok |-> FALSE, matrix |-> <<>>]
    ELSE [ok |-> TRUE,
          matrix |-> [i \in DOMAIN X.rows |->
                        [j \in DOMAIN X.columns |->
                            ScaleCell(scaler, X.columns[j], X.rows[i][X.columns[j]])]]]

(* The multi-target regressor: predict(M) returns one row of two numbers    *)
(* per row of M, a fixed function of the row read by position (a missing    *)
(* entry counts as 0).                                                      *)

RECURSIVE WeightedSum(_, _, _)
WeightedSum(row, w, j) ==
    IF j > Len(row) THEN 0
    ELSE (IF IsNa(row[j]) THEN 0 ELSE w[j] * row[j].n) + WeightedSum(row, w, j + 1)

ModelPredict(model, M) ==
    [i \in DOMAIN M |->
        <<model.bias[1] + WeightedSum(M[i], model.energy, 1),
          model.bias[2] + WeightedSum(M[i], model.emissions, 1)>>]

-----------------------------------------------------------------------------
(* EnsemblePredictor.prepare_input_data and EnsemblePredictor.predict       *)

EnergyColumn    == "predicted_energy_intensity_kwh_per_sqft"
EmissionsColumn == "predicted_co2_emissions_co2e_kg"

NoFrame == [columns |-> <<>>, rows |-> <<>>]
Step(op, col) == [op |-> op, col |-> col]

\* Variant of MissingFeatures: reports only the first absent column
MissingFeatures_FirstOnly(feature_columns, df) ==
    LET m == SelectSeq(feature_columns, LAMBDA col : col \notin Range(df.columns))
    IN  IF m = <<>> THEN m ELSE <<m[1]>>

\* missing_features = [col for col in feature_columns if col not in data.columns]
MissingFeatures(feature_columns, df) ==
    SelectSeq(feature_columns, LAMBDA col : col \notin Range(df.columns))

\* Variant of EncodeCell: transforms the cell without the known-class test
EncodeCell_NoFallback(le, x) == LeTransform(le, PyStr(x))

\* The lambda applied to each cell x of an encoded column
EncodeCell(le, x) ==
    IF PyStr(x) \in Range(le.classes_)
    THEN LeTransform(le, PyStr(x))
    ELSE LeTransform(le, le.classes_[1])

\* X[col] = X[col].fillna(le.classes_[0])
FillColumn(X, col, le) ==
    FillNaColumn(X, col, Str(le.classes_[1]))

\* The two assignments to X[col] for one categorical column with an encoder
EncodeColumn(X, col, le) ==
    LET filled == FillColumn(X, col, le)
    IN  [filled EXCEPT !.rows = [i \in DOMAIN filled.rows |->
            [filled.rows[i] EXCEPT ![col] = Num(EncodeCell(le, @).code)]]]

\* le.transform raised inside the apply of column col
EncodeColumnRaises(X, col, le) ==
    \E i \in DOMAIN X.rows : ~EncodeCell(le, FillColumn(X, col, le).rows[i][col]).ok

\* for col in categorical_features: if col in self.label_encoders: ...
RECURSIVE EncodeCategorical(_, _, _, _)
EncodeCategorical(X, categorical_features, label_encoders, i) ==
    IF i > Len(categorical_features) THEN X
    ELSE LET col == categorical_features[i]
         IN  IF col \in DOMAIN label_encoders
             THEN EncodeCategorical(EncodeColumn(X, col, label_encoders[col]),
                                    categorical_features, label_encoders, i + 1)
             ELSE EncodeCategorical(X, categorical_features, label_encoders, i + 1)

\* Variant of ImputeValue: the median of the column's present values
ImputeValue_Median(X, col) ==
    LET nums == {X.rows[i][col].n : i \in {j \in DOMAIN X.rows : X.rows[j][col].k = "num"}}
    IN  IF nums = {} THEN NaN
        ELSE Num(CHOOSE m \in nums :
                    /\ 2 * Cardinality({n \in nums : n < m}) <= Cardinality(nums)
                    /\ 2 * Cardinality({n \in nums : n > m}) <= Cardinality(nums))

\* The value missing numerical cells of column col are filled with
ImputeValue(X, col) == Num(0)

\* for col in numerical_features: X[col] = X[col].fillna(0)
RECURSIVE ImputeNumerical(_, _, _)
ImputeNumerical(X, numerical_features, i) ==
    IF i > Len(numerical_features) THEN X
    ELSE LET col == numerical_features[i]
         IN  ImputeNumerical(FillNaColumn(X, col, ImputeValue(X, col)),
                             numerical_features, i + 1)

\* Variant of InputAfterPrepare: X is a view, writes to X land in data
InputAfterPrepare_NoCopy(df, X) ==
    [df EXCEPT !.rows = [i \in DOMAIN df.rows |->
        [c \in DOMAIN df.rows[i] |->
            IF c \in Range(X.columns) THEN X.rows[i][c] ELSE df.rows[i][c]]]]

\* The caller's frame after prepare_input_data worked on X: X is a copy
\* (data[feature_columns].copy()), so no write to X reaches data.
InputAfterPrepare(df, X) == df

\* The steps prepare_input_data performs after the feature check, in order
PrepareSteps(p) ==
    LET fi   == p.feature_info
        encd == SelectSeq(fi.categorical_features,
                          LAMBDA col : col \in DOMAIN p.label_encoders)
    IN  <<Step("project", "")>>
        \o [i \in DOMAIN encd |-> Step("encode", encd[i])]
        \o [i \in DOMAIN fi.numerical_features |-> Step("impute", fi.numerical_features[i])]
        \o <<Step("scale", "")>>

\* Variant of ScalerInput: the scaler runs before the numerical loop
ScalerInput_BeforeImpute(encoded, imputed) == encoded

\* X_scaled = self.scaler.transform(X): the scaler is handed X as the two
\* loops left it, encoded being X after the first and imputed after both
ScalerInput(encoded, imputed) == imputed

(* Result: raised ("" when it returns), the missing features, X as handed   *)
(* to scaler.transform, the returned X_scaled, the caller's frame           *)
(* afterwards, and the steps performed.                                     *)
PrepareInputData(p, df) ==
    LET feature_columns      == p.feature_info.feature_columns
        categorical_features == p.feature_info.categorical_features
        numerical_features   == p.feature_info.numerical_features
        missing_features     == MissingFeatures(feature_columns, df)
    IN  IF missing_features # <<>>
        THEN [raised |-> "ValueError: Missing required features",
              missing |-> missing_features, X |-> NoFrame, X_scaled |-> <<>>,
              data_after |-> df, steps |-> <<>>]
        ELSE
        LET X0 == Project(df, feature_columns)
            encodeRaises ==
                \E i \in DOMAIN categorical_features :
                    /\ categorical_features[i] \in DOMAIN p.label_encoders
                    /\ EncodeColumnRaises(X0, categorical_features[i],
                                          p.label_encoders[categorical_features[i]])
            X1 == EncodeCategorical(X0, categorical_features, p.label_encoders, 1)
            X  == ScalerInput(X1, ImputeNumerical(X1, numerical_features, 1))
            sc == ScalerTransform(p.scaler, X)
        IN  IF encodeRaises
            THEN [raised |-> "ValueError: unseen label", missing |-> <<>>,
                  X |-> NoFrame, X_scaled |-> <<>>,
                  data_after |-> InputAfterPrepare(df, X0), steps |-> <<Step("project", "")>>]
            ELSE IF ~sc.ok
            THEN [raised |-> "ValueError: scaler", missing |-> <<>>,
                  X |-> X, X_scaled |-> <<>>,
                  data_after |-> InputAfterPrepare(df, X), steps |-> PrepareSteps(p)]
            ELSE [raised |-> "", missing |-> <<>>,
                  X |-> X, X_scaled |-> sc.matrix,
                  data_after |-> InputAfterPrepare(df, X), steps |-> PrepareSteps(p)]

\* Which column of the model's output feeds each added column
EnergyIndex    == 1    \* predictions[:, 0]
EmissionsIndex == 2    \* predictions[:, 1]

\* Variant of PredictorAfterPredict: every encoder learns the label "Z"
PredictorAfterPredict_Learn(p, df) ==
    [p EXCEPT !.label_encoders =
        [c \in DOMAIN p.label_encoders |->
            [classes_ |-> Append(p.label_encoders[c].classes_, "Z")]]]

\* The predictor object after predict(): neither method assigns to self
PredictorAfterPredict(p, df) == p

(* Result: raised, the returned frame, the matrix handed to model.predict,  *)
(* the caller's frame afterwards, the steps performed and prepare's result. *)
Predict(p, df) ==
    LET prep == PrepareInputData(p, df)
    IN  IF prep.raised # ""
        THEN [raised |-> prep.raised, result_df |-> NoFrame, model_input |-> <<>>,
              data_after |-> prep.data_after, steps |-> prep.steps, prep |-> prep]
        ELSE
        LET predictions == ModelPredict(p.model, prep.X_scaled)
            energy_predictions    == [i \in DOMAIN predictions |-> Num(predictions[i][EnergyIndex])]
            emissions_predictions == [i \in DOMAIN predictions |-> Num(predictions[i][EmissionsIndex])]
            copy      == prep.data_after
            result_df == AssignColumn(AssignColumn(copy, EnergyColumn, energy_predictions),
                                      EmissionsColumn, emissions_predictions)
        IN  [raised |-> "", result_df |-> result_df, model_input |-> prep.X_scaled,
             data_after |-> prep.data_after,
             steps |-> Append(prep.steps, Step("model", "")), prep |-> prep]

-----------------------------------------------------------------------------
(* SpecPredict: bundles and input frames                                    *)

MaxRows  == 2     \* rows of an input frame
MaxCalls == 2     \* calls of predict() on the same frame

CategoricalNames == {"btype"}
NumericalNames   == {"sqft"}
FeatureNames     == CategoricalNames \cup NumericalNames
\* An input may carry columns that are no feature, among them a column
\* already named like an output column (a file of earlier predictions)
InputNames       == FeatureNames \cup {EnergyColumn}

\* The cells an input column may hold
CellValues(col) ==
    CASE col \in CategoricalNames -> {NaN, Num(1), Str("A"), Str("Z")}
      [] col \in NumericalNames   -> {NaN, Num(4)}
      [] OTHER                    -> {Num(7)}

FramesOver(cols) ==
    {[columns |-> cols, rows |-> r] :
        r \in SeqsUpTo({row \in [Range(cols) -> UNION {CellValues(c) : c \in Range(cols)}] :
                            \A c \in Range(cols) : row[c] \in CellValues(c)}, MaxRows)}

Frames ==
    UNION {FramesOver(cols) : cols \in DistinctSeqs(InputNames, 0, Cardinality(InputNames))}

\* The schema manifest written at training time for the feature order fc:
\* every feature is categorical or numerical, by its name
FeatureInfo(fc) ==
    [feature_columns      |-> fc,
     categorical_features |-> SelectSeq(fc, LAMBDA c : c \in CategoricalNames),
     numerical_features   |-> SelectSeq(fc, LAMBDA c : c \in NumericalNames)]

BtypeEncoder == [classes_ |-> <<"0", "1", "A">>]

\* The scaler fitted on the columns fc
ScalerFor(fc) ==
    [feature_names_in_ |-> fc,
     a |-> [c \in FeatureNames |-> IF c \in CategoricalNames THEN 2 ELSE 3],
     b |-> [c \in FeatureNames |-> IF c \in CategoricalNames THEN 1 ELSE 5]]

TheModel == [bias |-> <<10, 20>>, energy |-> <<1, 2>>, emissions |-> <<3, 1>>]

\* The bundles a predictor may hold after load: one per feature order, with
\* or without an encoder for the categorical column
Bundles ==
    {[model |-> TheModel, scaler |-> ScalerFor(fc), label_encoders |-> encs,
      feature_info |-> FeatureInfo(fc)] :
        fc \in DistinctSeqs(FeatureNames, 1, Cardinality(FeatureNames)),
        encs \in {[c \in {"btype"} |-> BtypeEncoder], [c \in {} |-> BtypeEncoder]}}

-----------------------------------------------------------------------------
(* Idle values of each specification's variables                            *)

None == [loaded |-> FALSE, file |-> <<>>]

PredictIdle ==
    /\ ep = [model |-> TheModel, scaler |-> ScalerFor(<<>>),
             label_encoders |-> [c \in {} |-> BtypeEncoder], feature_info |-> FeatureInfo(<<>>)]
    /\ data = NoFrame
    /\ calls = <<>>

LoadIdle ==
    /\ self = [model |-> None, scaler |-> None, label_encoders |-> None, feature_info |-> None]
    /\ dir = [model |-> {}, scaler |-> {}, label_encoders |-> {}, feature_info |-> {}]
    /\ loads = <<>>

\* Lines 23-25 of retrofit_prediction.py, before the try block has run
ServiceIdle ==
    /\ disk = [exists |-> FALSE, pkl |-> 0]
    /\ started = FALSE
    /\ boot = [load_calls |-> 0, load_returned |-> FALSE]
    /\ predictor = [ref |-> "None"]
    /\ MODEL_AVAILABLE = FALSE
    /\ STARTUP_ERROR = [set |-> FALSE, msg |-> "", cause |-> ""]
    /\ nreq = 0
    /\ inflight = {}
    /\ responses = {}

\* No function of model_selector.py has been called
NoLookup == [fn |-> "", building_type |-> <<>>, location |-> <<>>,
             out |-> [raised |-> "", value |-> ""]]

SelectIdle == lookup = NoLookup

-----------------------------------------------------------------------------
(* SpecPredict: a caller holds one frame and calls predict() on it          *)

InitPredict ==
    /\ ep \in Bundles
    /\ data \in Frames
    /\ calls = <<>>
    /\ LoadIdle
    /\ ServiceIdle
    /\ SelectIdle

\* predictor.predict(data)
CallPredict ==
    /\ Len(calls) < MaxCalls
    /\ LET out == Predict(ep, data)
       IN  /\ calls' = Append(calls, [input |-> data, bundle |-> ep, out |-> out])
           /\ data' = out.data_after
           /\ ep' = PredictorAfterPredict(ep, data)
    /\ UNCHANGED <<loadVars, serviceVars, selectVars>>

NextPredict == CallPredict

SpecPredict == InitPredict /\ [][NextPredict]_vars

-----------------------------------------------------------------------------
(* Claims about prepare_input_data and predict, checked under SpecPredict   *)

Call(i)            == calls[i]
FeatureColumns(c)  == c.bundle.feature_info.feature_columns
AllPresent(c)      == \A col \in Range(FeatureColumns(c)) : col \in Range(c.input.columns)
\* prepare_input_data got as far as scaler.transform(X)
ReachedScaler(c)   == c.out.prep.raised \in {"", "ValueError: scaler"}
Returned(c)        == c.out.raised = ""

\* C2: for every input that has every feature column (extra columns and
\* any column order allowed), the frame handed to the scaler has one row
\* per input row and exactly the columns feature_columns in schema order,
\* and the matrix handed to the model has the same shape, position j of a
\* row holding the scaled cell of feature_columns[j].
C2_AlignedMatrixShape ==
    \A i \in DOMAIN calls :
        LET c  == Call(i)
            fc == FeatureColumns(c)
            X  == c.out.prep.X
        IN  AllPresent(c) =>
              /\ ReachedScaler(c)
              /\ X.columns = fc
              /\ Len(X.rows) = Len(c.input.rows)
              /\ \A r \in DOMAIN X.rows : DOMAIN X.rows[r] = Range(fc)
              /\ Returned(c) =>
                   /\ Len(c.out.model_input) = Len(c.input.rows)
                   /\ \A r \in DOMAIN c.out.model_input :
                        /\ Len(c.out.model_input[r]) = Len(fc)
                        /\ \A j \in DOMAIN fc :
                             c.out.model_input[r][j] =
                                 ScaleCell(c.bundle.scaler, fc[j], X.rows[r][fc[j]])

\* A returned call on two rows whose input has an extra column and orders
\* its columns differently from the schema
C2_Witness ==
    \E i \in DOMAIN calls :
        /\ Returned(Call(i))
        /\ Len(Call(i).input.rows) = 2
        /\ Len(FeatureColumns(Call(i))) = 2
        /\ EnergyColumn \in Range(Call(i).input.columns)
        /\ Call(i).input.columns[1] = FeatureColumns(Call(i))[2]

\* C3: prepare_input_data raises the missing-features error exactly when
\* some feature column is absent from the input; the error lists every
\* absent column once, in schema order; and nothing was projected,
\* encoded, imputed, scaled or predicted.
C3_MissingFeaturesError ==
    \A i \in DOMAIN calls :
        LET c      == Call(i)
            fc     == FeatureColumns(c)
            absent == {col \in Range(fc) : col \notin Range(c.input.columns)}
            m      == c.out.prep.missing
        IN  /\ (c.out.prep.raised = "ValueError: Missing required features") <=> (absent # {})
            /\ absent # {} =>
                 /\ Range(m) = absent
                 /\ Len(m) = Cardinality(absent)
                 /\ \A a, b \in DOMAIN m : a < b =>
                        \E x, y \in DOMAIN fc : x < y /\ fc[x] = m[a] /\ fc[y] = m[b]
                 /\ c.out.steps = <<>>
                 /\ c.out.prep.X_scaled = <<>>
                 /\ c.out.model_input = <<>>
                 /\ c.out.raised = c.out.prep.raised

\* A call whose input lacks two feature columns
C3_Witness ==
    \E i \in DOMAIN calls :
        /\ Len(Call(i).out.prep.missing) = 2
        /\ Len(Call(i).input.rows) > 0

\* The code an encoder gives a cell, stated from the encoder's classes
ExpectedCode(le, v) ==
    IF IsNa(v) THEN 0
    ELSE IF \E n \in DOMAIN le.classes_ : le.classes_[n] = PyStr(v)
         THEN (CHOOSE n \in DOMAIN le.classes_ : le.classes_[n] = PyStr(v)) - 1
         ELSE 0

\* C4: in every categorical column with an encoder a missing cell gets the
\* first class's code, a cell whose string form is a known class gets that
\* class's code, any other cell gets the first class's code; encoding
\* never raises, and the same cell encodes to the same code on every call.
C4_EncodeWithFallback ==
    \A i \in DOMAIN calls :
        LET c == Call(i)
        IN  AllPresent(c) =>
              /\ c.out.prep.raised # "ValueError: unseen label"
              /\ ReachedScaler(c)
              /\ \A col \in Range(c.bundle.feature_info.categorical_features) :
                   col \in DOMAIN c.bundle.label_encoders =>
                     \A r \in DOMAIN c.input.rows :
                        /\ c.out.prep.X.rows[r][col] =
                             Num(ExpectedCode(c.bundle.label_encoders[col], c.input.rows[r][col]))
                        /\ \A j \in DOMAIN calls : \A q \in DOMAIN Call(j).input.rows :
                             (AllPresent(Call(j)) /\ ReachedScaler(Call(j))
                                /\ Call(j).input.rows[q][col] = c.input.rows[r][col])
                             => Call(j).out.prep.X.rows[q][col] = c.out.prep.X.rows[r][col]

\* A second call on a frame with an unknown category in one row and a
\* number whose string form is a known class in the other
C4_Witness ==
    /\ Len(calls) = 2
    /\ "btype" \in DOMAIN Call(2).bundle.label_encoders
    /\ Returned(Call(2))
    /\ Len(Call(2).input.rows) = 2
    /\ Call(2).input.rows[1]["btype"] = Str("Z")
    /\ Call(2).input.rows[2]["btype"] = Num(1)
    /\ Call(2).out.prep.X.rows[2]["btype"] = Num(1)

ModelOutput(c) == ModelPredict(c.bundle.model, c.out.model_input)

\* C8 as stated: predict leaves the input frame unchanged and returns the
\* input's rows and columns plus exactly two added columns, the energy
\* column from model output column 0 and the emissions column from model
\* output column 1, row by row.
C8_Original ==
    \A i \in DOMAIN calls :
        LET c == Call(i)
            res == c.out.result_df
        IN  /\ c.out.data_after = c.input
            /\ Returned(c) =>
                 /\ res.columns = c.input.columns \o <<EnergyColumn, EmissionsColumn>>
                 /\ Len(res.rows) = Len(c.input.rows)
                 /\ \A r \in DOMAIN res.rows :
                      /\ \A col \in Range(c.input.columns) :
                            res.rows[r][col] = c.input.rows[r][col]
                      /\ res.rows[r][EnergyColumn] = Num(ModelOutput(c)[r][1])
                      /\ res.rows[r][EmissionsColumn] = Num(ModelOutput(c)[r][2])

\* C8 amended: predict leaves the input frame unchanged; the returned
\* frame has the input's rows, keeps every input column in place with its
\* values unless it is named like an output column, holds model output
\* column 0 in the energy column and column 1 in the emissions column row
\* by row, and appends (energy first) only the output columns the input
\* does not already have.
C8_CopyWithPredictions ==
    \A i \in DOMAIN calls :
        LET c == Call(i)
            res == c.out.result_df
            outs == <<EnergyColumn, EmissionsColumn>>
        IN  /\ c.out.data_after = c.input
            /\ Returned(c) =>
                 /\ res.columns = c.input.columns
                       \o SelectSeq(outs, LAMBDA o : o \notin Range(c.input.columns))
                 /\ Len(res.rows) = Len(c.input.rows)
                 /\ \A r \in DOMAIN res.rows :
                      /\ \A col \in Range(c.input.columns) \ Range(outs) :
                            res.rows[r][col] = c.input.rows[r][col]
                      /\ res.rows[r][EnergyColumn] = Num(ModelOutput(c)[r][1])
                      /\ res.rows[r][EmissionsColumn] = Num(ModelOutput(c)[r][2])

\* A returned call on two rows with a missing number and an unknown
\* category (both rewritten internally), without output-named columns
C8_Witness ==
    \E i \in DOMAIN calls :
        /\ Returned(Call(i))
        /\ Len(Call(i).input.rows) = 2
        /\ Range(Call(i).input.columns) = FeatureNames
        /\ IsNa(Call(i).input.rows[1]["sqft"])
        /\ Call(i).input.rows[2]["btype"] = Str("Z")
        /\ Len(Call(i).out.result_df.columns) = 4
        /\ data = Call(i).input

StepsOf(c, op) == {k \in DOMAIN c.out.steps : c.out.steps[k].op = op}

\* C20: in every call that has all feature columns the steps run in the
\* order project, encode, impute, scale, model: one projection first, at
\* most one scaling, every encoding and imputation before it, the model
\* after it; when the scaler is reached every categorical column with an
\* encoder has been encoded and every numerical column imputed, so the
\* frame it is handed holds a class code in each such categorical cell and
\* no missing numerical cell, and what the model is handed is the scaler's
\* output on that frame.
C20_ProjectEncodeImputeScale ==
    \A i \in DOMAIN calls :
        LET c    == Call(i)
            fi   == c.bundle.feature_info
            encd == {col \in Range(fi.categorical_features) :
                        col \in DOMAIN c.bundle.label_encoders}
            X    == c.out.prep.X
        IN  AllPresent(c) =>
              /\ StepsOf(c, "project") = {1}
              /\ Cardinality(StepsOf(c, "scale")) <= 1
              /\ \A k \in StepsOf(c, "encode") :
                    /\ \A m \in StepsOf(c, "impute") \cup StepsOf(c, "scale") : k < m
                    /\ k > 1
              /\ \A k \in StepsOf(c, "impute") : \A m \in StepsOf(c, "scale") : k < m
              /\ \A k \in StepsOf(c, "model") :
                    /\ \E m \in StepsOf(c, "scale") : m < k
                    /\ k = Len(c.out.steps)
                    /\ Returned(c)
              /\ Returned(c) => Cardinality(StepsOf(c, "model")) = 1
              /\ ReachedScaler(c) =>
                    /\ Cardinality(StepsOf(c, "scale")) = 1
                    /\ {c.out.steps[k].col : k \in StepsOf(c, "encode")} = encd
                    /\ {c.out.steps[k].col : k \in StepsOf(c, "impute")} =
                          Range(fi.numerical_features)
                    /\ \A r \in DOMAIN X.rows :
                          /\ \A col \in encd :
                                /\ X.rows[r][col].k = "num"
                                /\ X.rows[r][col].n \in
                                      0..(Len(c.bundle.label_encoders[col].classes_) - 1)
                          /\ \A col \in Range(fi.numerical_features) :
                                ~IsNa(X.rows[r][col])
              /\ Returned(c) =>
                    /\ c.out.model_input = c.out.prep.X_scaled
                    /\ \A r \in DOMAIN X.rows : \A j \in DOMAIN fi.feature_columns :
                          LET col == fi.feature_columns[j]
                          IN  c.out.model_input[r][j] =
                                IF IsNa(X.rows[r][col]) THEN NaN
                                ELSE Num(c.bundle.scaler.a[col] * X.rows[r][col].n
                                         + c.bundle.scaler.b[col])

\* A returned call on a bundle that encodes btype and imputes sqft, on a
\* row whose category is unknown and whose number is missing
C20_Witness ==
    \E i \in DOMAIN calls :
        /\ Returned(Call(i))
        /\ "btype" \in DOMAIN Call(i).bundle.label_encoders
        /\ Len(Call(i).out.steps) = 5
        /\ \E r \in DOMAIN Call(i).input.rows :
              /\ Call(i).input.rows[r]["btype"] = Str("Z")
              /\ IsNa(Call(i).input.rows[r]["sqft"])

-----------------------------------------------------------------------------
(* EnsemblePredictor.__init__ and EnsemblePredictor.load_latest_models      *)
(*                                                                         *)
(* A file of a group is named <prefix><stamp><suffix>; within a group the   *)
(* directory and the prefix are common, so files are ordered by             *)
(* <stamp><suffix>, held as the sequence of its characters' code points.    *)

Groups == <<"model", "scaler", "label_encoders", "feature_info">>

\* Code points: '0'..'9' are 48..57, '_' is 95, '.' is 46, letters as in ASCII
Stamp2024 == <<50, 48, 50, 52, 48, 49, 48, 49, 95, 48, 48, 48, 48, 48, 48>>  \* 20240101_000000
Stamp2025 == <<50, 48, 50, 53, 48, 54, 48, 49, 95, 48, 48, 48, 48, 48, 48>>  \* 20250601_000000
Stamp9    == <<57>>                                                          \* 9
Stamps    == {Stamp2024, Stamp2025, Stamp9}

SuffixPkl  == <<46, 112, 107, 108>>         \* .pkl
SuffixJson == <<46, 106, 115, 111, 110>>    \* .json

\* The file of group g stamped stamp, as matched by the group's glob pattern
FileName(g, stamp) == stamp \o (IF g = "feature_info" THEN SuffixJson ELSE SuffixPkl)

\* Python's str (and Path) order: by code point, a proper prefix first
RECURSIVE LexLess(_, _)
LexLess(a, b) ==
    IF a = <<>> THEN b # <<>>
    ELSE IF b = <<>> THEN FALSE
    ELSE IF a[1] # b[1] THEN a[1] < b[1]
    ELSE LexLess(Tail(a), Tail(b))

\* sorted(self.models_dir.glob(pattern))
RECURSIVE Sorted(_)
Sorted(files) ==
    IF files = {} THEN <<>>
    ELSE LET least == CHOOSE f \in files : \A g \in files \ {f} : LexLess(f, g)
         IN  <<least>> \o Sorted(files \ {least})

\* Variant of Latest: the first of the sorted list
Latest_First(sorted) == sorted[1]

\* models[-1]
Latest(sorted) == sorted[Len(sorted)]

\* Variant of NoModels: the emptiness check is missing
NoModels_Unchecked(models) == FALSE

\* if not models
NoModels(models) == models = <<>>

\* pickle.load / json.load of a file that deserializes
Deserialize(name) == [loaded |-> TRUE, file |-> name]

\* EnsemblePredictor.__init__
NewPredictor ==
    [model |-> None, scaler |-> None, label_encoders |-> None, feature_info |-> None]

(* Groups 2..4 (and group 1 after the check): open the latest file of group *)
(* i, deserialize it into its field, go on to the next group.  corrupt is   *)
(* the set of groups whose latest file does not deserialize.  An empty      *)
(* group makes [-1] raise IndexError; a raise leaves the fields set so far. *)
RECURSIVE LoadFrom(_, _, _, _, _)
LoadFrom(s, d, corrupt, i, opened) ==
    IF i > Len(Groups)
    THEN [raised |-> "", opened |-> opened, self_after |-> s]
    ELSE
    LET g      == Groups[i]
        sorted == Sorted(d[g])
    IN  IF sorted = <<>>
        THEN [raised |-> "IndexError", opened |-> opened, self_after |-> s]
        ELSE LET name == Latest(sorted)
                 op   == Append(opened, [group |-> g, file |-> name])
             IN  IF g \in corrupt
                 THEN [raised |-> "DeserializeError", opened |-> op, self_after |-> s]
                 ELSE LoadFrom([s EXCEPT ![g] = Deserialize(name)], d, corrupt, i + 1, op)

\* load_latest_models(): raised ("" when it returns), the files opened in
\* order, and the predictor's fields afterwards
LoadLatestModels(s, d, corrupt) ==
    IF NoModels(Sorted(d["model"]))
    THEN [raised |-> "FileNotFoundError", opened |-> <<>>, self_after |-> s]
    ELSE LoadFrom(s, d, corrupt, 1, <<>>)

-----------------------------------------------------------------------------
(* SpecLoad: a fresh predictor loads once from a models directory           *)

MaxFiles == 2    \* files of one group in the directory

FilesOf(g) == {fs \in SUBSET {FileName(g, s) : s \in Stamps} : Cardinality(fs) <= MaxFiles}

Directories ==
    [model : FilesOf("model"), scaler : FilesOf("scaler"),
     label_encoders : FilesOf("label_encoders"), feature_info : FilesOf("feature_info")]

InitLoad ==
    /\ self = NewPredictor
    /\ dir \in Directories
    /\ loads = <<>>
    /\ PredictIdle
    /\ ServiceIdle
    /\ SelectIdle

\* predictor.load_latest_models(), as main() and the service call it: once,
\* right after the constructor
CallLoad ==
    /\ loads = <<>>
    /\ \E corrupt \in SUBSET Range(Groups) :
         LET out == LoadLatestModels(self, dir, corrupt)
         IN  /\ loads' = Append(loads, [before |-> self, dir |-> dir,
                                        corrupt |-> corrupt, out |-> out])
             /\ self' = out.self_after
    /\ UNCHANGED <<dir, predictVars, serviceVars, selectVars>>

NextLoad == CallLoad

SpecLoad == InitLoad /\ [][NextLoad]_vars

-----------------------------------------------------------------------------
(* Claims about load_latest_models, checked under SpecLoad                  *)

\* The greatest name of a non-empty set in lexicographic order
Greatest(files) == CHOOSE f \in files : \A g \in files : g = f \/ LexLess(g, f)

\* C6: when all four groups are non-empty, only the lexicographically
\* greatest file of a group is ever opened, group by group and whatever the
\* other groups hold; a load that returns has set every field from the
\* greatest file of its group; a load with no corrupt latest file returns;
\* of the model files stamped 20240101_000000 and 20250601_000000 the
\* latter is the one opened.
C6_LoadsLatestPerGroup ==
    \A i \in DOMAIN loads :
        LET l == loads[i]
        IN  (\A g \in Range(Groups) : l.dir[g] # {}) =>
              /\ \A k \in DOMAIN l.out.opened :
                    /\ l.out.opened[k].group = Groups[k]
                    /\ l.out.opened[k].file = Greatest(l.dir[Groups[k]])
              /\ l.out.raised \in {"", "DeserializeError"}
              /\ l.out.raised = "" =>
                    /\ Len(l.out.opened) = Len(Groups)
                    /\ \A g \in Range(Groups) :
                          l.out.self_after[g] = [loaded |-> TRUE, file |-> Greatest(l.dir[g])]
              /\ l.corrupt = {} => l.out.raised = ""
              /\ l.dir["model"] = {FileName("model", Stamp2024), FileName("model", Stamp2025)} =>
                    l.out.opened[1].file = FileName("model", Stamp2025)

\* A returned load from a directory with the two dated model files and two
\* scaler files whose greatest is another name
C6_Witness ==
    \E i \in DOMAIN loads :
        /\ loads[i].out.raised = ""
        /\ loads[i].dir["model"] = {FileName("model", Stamp2024), FileName("model", Stamp2025)}
        /\ loads[i].dir["scaler"] = {FileName("scaler", Stamp2024), FileName("scaler", Stamp9)}
        /\ loads[i].dir["feature_info"] = {FileName("feature_info", Stamp2024)}
        /\ self.model.file = FileName("model", Stamp2025)
        /\ self.scaler.file = FileName("scaler", Stamp9)

\* C7: with no model file, load_latest_models raises FileNotFoundError
\* whatever the other groups hold, opens no file and leaves model, scaler,
\* label_encoders and feature_info as they were.
C7_NoModelFileNotFound ==
    \A i \in DOMAIN loads :
        LET l == loads[i]
        IN  /\ l.dir["model"] = {} =>
                 /\ l.out.raised = "FileNotFoundError"
                 /\ l.out.opened = <<>>
                 /\ l.out.self_after = l.before
                 /\ self = l.before
            /\ l.out.raised = "FileNotFoundError" => l.dir["model"] = {}

\* A failed load from a directory without model files but with scaler,
\* encoder and schema files
C7_Witness ==
    \E i \in DOMAIN loads :
        /\ loads[i].dir["model"] = {}
        /\ \A g \in Range(Groups) \ {"model"} : Cardinality(loads[i].dir[g]) = 2
        /\ loads[i].out.raised = "FileNotFoundError"

-----------------------------------------------------------------------------
(* src/api/routes/retrofit_prediction.py: module initialisation             *)

NoPredictor == [ref |-> "None"]
NoError     == [set |-> FALSE, msg |-> "", cause |-> ""]
Error(msg, cause) == [set |-> TRUE, msg |-> msg, cause |-> cause]

\* The module-level predictor once load_latest_models() has returned on s
PredictorObject(s) ==
    [ref |-> "obj", model |-> s.model, scaler |-> s.scaler,
     label_encoders |-> s.label_encoders, feature_info |-> s.feature_info]

\* What module initialisation did: how often it called
\* load_latest_models and whether a call returned
Boot(load_calls, load_returned) ==
    [load_calls |-> load_calls, load_returned |-> load_returned]

\* Variant of PredictorAfterLoadError: the half-loaded object is kept
PredictorAfterLoadError_Kept(s) == PredictorObject(s)

\* except Exception as load_error: ... predictor = None, s being the
\* EnsemblePredictor as load_latest_models left it when it raised
PredictorAfterLoadError(s) == NoPredictor

(* The try block at import time.  import_ok: predict_with_ensemble imports; *)
(* dir_exists: models_dir.exists(); d: the directory's files; corrupt: the  *)
(* groups whose latest file does not deserialize.                           *)
ModuleInit(import_ok, dir_exists, d, corrupt) ==
    IF ~import_ok
    THEN [predictor |-> NoPredictor, MODEL_AVAILABLE |-> FALSE,
          STARTUP_ERROR |-> Error("Warning: Could not initialize retrofit predictor", "ImportError"),
          boot |-> Boot(0, FALSE)]
    ELSE IF ~dir_exists
    THEN [predictor |-> NoPredictor, MODEL_AVAILABLE |-> FALSE,
          STARTUP_ERROR |-> Error("Models directory not found", ""),
          boot |-> Boot(0, FALSE)]
    ELSE LET out == LoadLatestModels(NewPredictor, d, corrupt)
         IN  IF out.raised = ""
             THEN [predictor |-> PredictorObject(out.self_after), MODEL_AVAILABLE |-> TRUE,
                   STARTUP_ERROR |-> NoError,
                   boot |-> Boot(1, TRUE)]
             ELSE [predictor |-> PredictorAfterLoadError(out.self_after),
                   MODEL_AVAILABLE |-> FALSE,
                   STARTUP_ERROR |-> Error("Error loading models", out.raised),
                   boot |-> Boot(1, FALSE)]

-----------------------------------------------------------------------------
(* The handlers.  A handler is a coroutine on the server's event loop: it   *)
(* runs without interruption except where it awaits, so /predict and        *)
(* /batch are one step each and /upload is two, split at await file.read(). *)

MinInputColumns == 48      \* df.shape[1] < 48
MaxBuildings    == 1000    \* len(df) > 1000
MaxItems        == 1000    \* BatchPredictionInput.buildings, max_items

NoBody    == [total |-> 0, successful |-> 0, failed |-> 0, npredictions |-> 0]
NoContent == [parses |-> FALSE, ncols |-> 0, nrows |-> 0, predict_raises |-> FALSE, bad |-> {}]

\* A finished request: what it was, the status it got, whether the handler
\* read the module-level predictor state, whether it called
\* predictor.predict, and the counts of a batch response
Response(kind, filename, content, n, status, consulted, predict_called, body) ==
    [kind |-> kind, filename |-> filename, content |-> content, n |-> n,
     status |-> status, consulted |-> consulted, predict_called |-> predict_called,
     body |-> body]

\* str.endswith(suffix), names and suffixes as sequences of characters
EndsWith(name, suffix) ==
    /\ Len(name) >= Len(suffix)
    /\ SubSeq(name, Len(name) - Len(suffix) + 1, Len(name)) = suffix

DotXlsx == <<".", "x", "l", "s", "x">>
DotXls  == <<".", "x", "l", "s">>
DotCsv  == <<".", "c", "s", "v">>

\* file.filename.endswith(('.xlsx', '.xls', '.csv'))
SupportedFileType(filename) ==
    \E suffix \in {DotXlsx, DotXls, DotCsv} : EndsWith(filename, suffix)

\* Variant of ModelsNotLoaded: the `not` is dropped
ModelsNotLoaded_DroppedNot(pred, available) == available \/ pred = NoPredictor

\* if not MODEL_AVAILABLE or predictor is None
ModelsNotLoaded(pred, available) == ~available \/ pred = NoPredictor

MinFloorArea == 0       \* floor_area_sqft: gt=0
MinYearBuilt == 1800    \* year_built: ge=1800
MaxYearBuilt == 2030    \* year_built: le=2030
MinNumFloors == 1       \* num_floors: ge=1

\* BuildingInput: the field constraints the framework checks before it
\* calls a handler; a body that fails them is answered 422
ValidBuilding(building) ==
    /\ building.floor_area_sqft > MinFloorArea
    /\ building.year_built >= MinYearBuilt /\ building.year_built <= MaxYearBuilt
    /\ building.num_floors >= MinNumFloors

\* BatchPredictionInput: buildings has at most max_items entries
ValidBatch(n) == n <= MaxItems

\* Variant of RowsProcessed: the loop ends at the first row that fails
RowsProcessed_StopAtFailure(n, bad) == {i \in 1..n : \A j \in bad : i <= j}

\* The rows the result loop of /batch and /upload runs its body on: each
\* iteration's try/except absorbs the row's failure and the loop goes on
RowsProcessed(n, bad) == 1..n

\* The counts a result loop over n rows leaves, bad being the rows whose
\* try body raises: successful, failed and len(predictions)
LoopCounts(n, bad) ==
    LET rows == RowsProcessed(n, bad)
    IN  [successful   |-> Cardinality({i \in rows : i \notin bad}),
         failed       |-> Cardinality({i \in rows : i \in bad}),
         npredictions |-> Cardinality({i \in rows : i \notin bad})]

\* POST /predict; content holds the request body
HandlePredict(pred, available, building) ==
    IF ~ValidBuilding(building)
    THEN Response("predict", <<>>, building, 1, 422, FALSE, FALSE, NoBody)
    ELSE IF ModelsNotLoaded(pred, available)
    THEN Response("predict", <<>>, building, 1, 503, TRUE, FALSE, NoBody)
    ELSE Response("predict", <<>>, building, 1, 200, TRUE, FALSE,
                  [total |-> 1, successful |-> 1, failed |-> 0, npredictions |-> 1])

\* POST /batch with n buildings, bad being the buildings whose try body
\* raises; the body is validated first (max_items)
HandleBatch(pred, available, n, bad) ==
    IF ~ValidBatch(n)
    THEN Response("batch", <<>>, [bad |-> bad], n, 422, FALSE, FALSE, NoBody)
    ELSE IF ModelsNotLoaded(pred, available)
    THEN Response("batch", <<>>, [bad |-> bad], n, 503, TRUE, FALSE, NoBody)
    ELSE LET counts == LoopCounts(n, bad)
         IN  Response("batch", <<>>, [bad |-> bad], n, 200, TRUE, FALSE,
                      [total |-> n, successful |-> counts.successful,
                       failed |-> counts.failed, npredictions |-> counts.npredictions])

\* Variant of TooFewColumns: an off-by-one comparison
TooFewColumns_OffByOne(ncols) == ncols <= MinInputColumns

\* if df.shape[1] < 48
TooFewColumns(ncols) == ncols < MinInputColumns

\* if len(df) > 1000
TooManyRows(nrows) == nrows > MaxBuildings

\* POST /upload up to await file.read(): TRUE when the file type is refused
UploadRefusesType(filename) == ~SupportedFileType(filename)

\* Variant of HandleUpload: the predictor is checked before the frame
HandleUpload_PredictorFirst(pred, filename, content) ==
    IF ~content.parses
    THEN IF EndsWith(filename, DotCsv)
         THEN Response("upload", filename, content, 0, 500, FALSE, FALSE, NoBody)
         ELSE Response("upload", filename, content, 0, 400, FALSE, FALSE, NoBody)
    ELSE IF pred = NoPredictor
    THEN Response("upload", filename, content, content.nrows, 503, TRUE, FALSE, NoBody)
    ELSE IF TooFewColumns(content.ncols) \/ TooManyRows(content.nrows) \/ content.nrows = 0
    THEN Response("upload", filename, content, content.nrows, 400, TRUE, FALSE, NoBody)
    ELSE IF content.predict_raises
    THEN Response("upload", filename, content, content.nrows, 500, TRUE, TRUE, NoBody)
    ELSE Response("upload", filename, content, content.nrows, 200, TRUE, TRUE,
                  [total |-> content.nrows, successful |-> content.nrows,
                   failed |-> 0, npredictions |-> content.nrows])

(* POST /upload after file.read() returned content.  content.parses: the   *)
(* reader accepts the bytes; ncols, nrows: the parsed frame's shape;        *)
(* predict_raises: predictor.predict raises on this frame; bad: the rows    *)
(* whose processing in the result loop raises.                              *)
HandleUpload(pred, filename, content) ==
    IF ~content.parses
    THEN IF EndsWith(filename, DotCsv)
         THEN Response("upload", filename, content, 0, 500, FALSE, FALSE, NoBody)
         ELSE Response("upload", filename, content, 0, 400, FALSE, FALSE, NoBody)
    ELSE IF TooFewColumns(content.ncols)
    THEN Response("upload", filename, content, content.nrows, 400, FALSE, FALSE, NoBody)
    ELSE IF TooManyRows(content.nrows)
    THEN Response("upload", filename, content, content.nrows, 400, FALSE, FALSE, NoBody)
    ELSE IF content.nrows = 0
    THEN Response("upload", filename, content, content.nrows, 400, FALSE, FALSE, NoBody)
    ELSE IF pred = NoPredictor
    THEN Response("upload", filename, content, content.nrows, 503, TRUE, FALSE, NoBody)
    ELSE IF content.predict_raises
    THEN Response("upload", filename, content, content.nrows, 500, TRUE, TRUE, NoBody)
    ELSE LET counts == LoopCounts(content.nrows, content.bad)
         IN  Response("upload", filename, content, content.nrows, 200, TRUE, TRUE,
                      [total |-> content.nrows, successful |-> counts.successful,
                       failed |-> counts.failed, npredictions |-> counts.npredictions])

\* Variant of PredictorAfterFailure: a failed prediction drops the predictor
PredictorAfterFailure_Reset(pred) == NoPredictor

\* The module-level predictor after predictor.predict raised in /upload:
\* the except clause only raises HTTPException(500)
PredictorAfterFailure(pred) == pred

\* The module-level predictor after /upload ran on content
PredictorAfterUpload(pred, content, response) ==
    IF ~response.predict_called THEN pred
    ELSE IF response.status = 500 THEN PredictorAfterFailure(pred)
    ELSE PredictorAfterPredict(pred, content)

\* GET /models/info: 503 without artifacts, else the *.pkl files on disk
HandleModelsInfo(pred, available, dsk) ==
    IF ModelsNotLoaded(pred, available)
    THEN Response("models_info", <<>>, NoContent, 0, 503, TRUE, FALSE, [total_models |-> 0])
    ELSE IF ~dsk.exists
    THEN Response("models_info", <<>>, NoContent, 0, 200, TRUE, FALSE, [total_models |-> 0])
    ELSE Response("models_info", <<>>, NoContent, 0, 200, TRUE, FALSE,
                  [total_models |-> dsk.pkl])

\* GET /status: the module-level state as it is
HandleStatus(pred, available, startup_error, dsk) ==
    Response("status", <<>>, NoContent, 0, 200, TRUE, FALSE,
             [status |-> IF available THEN "operational" ELSE "models_not_loaded",
              models_available |-> available,
              predictor_initialized |-> pred # NoPredictor,
              startup_error |-> startup_error.set,
              models_dir_exists |-> dsk.exists])

\* models_loaded = models_dir.exists() and len(list(models_dir.glob("*.pkl"))) > 0
HealthModelsLoaded(pred, available, dsk) == dsk.exists /\ dsk.pkl > 0

\* GET /health of the retrofit router
HandleHealth(pred, available, dsk) ==
    LET models_loaded == HealthModelsLoaded(pred, available, dsk)
    IN  Response("health", <<>>, NoContent, 0, 200, FALSE, FALSE,
                 [status |-> IF models_loaded THEN "healthy" ELSE "models_not_loaded",
                  models_loaded |-> models_loaded])

-----------------------------------------------------------------------------
(* Spec: the service process                                                *)

MaxRequests == 2     \* HTTP requests in one behaviour

\* The models directories the service may start on
ServiceDirectories ==
    [model : {{}, {FileName("model", Stamp2025)}},
     scaler : {{}, {FileName("scaler", Stamp2025)}},
     label_encoders : {{}, {FileName("label_encoders", Stamp2025)}},
     feature_info : {{}, {FileName("feature_info", Stamp2025)}}]

UploadNames ==
    {<<"a", ".", "c", "s", "v">>, <<"a", ".", "x", "l", "s", "x">>, <<"a", ".", "x", "l", "s">>,
     <<"a", ".", "t", "x", "t">>, <<"A", ".", "C", "S", "V">>}

ColumnCounts == {47, 48}
RowCounts    == {0, 1, 1000, 1001}
BatchSizes   == {0, 1, 1000, 1001}

\* Request bodies of /predict: one that passes validation, one that does not
Buildings ==
    {[floor_area_sqft |-> a, year_built |-> 2000, num_floors |-> 1] : a \in {0, 1500}}

\* Request bodies of /batch: the number of buildings and the buildings
\* whose try body raises
Batches ==
    {[n |-> n, bad |-> {}] : n \in BatchSizes}
    \cup {[n |-> 1000, bad |-> b] : b \in {{1}, {1, 1000}}}

\* The shapes of a parsed file: every row count with enough columns, and
\* with too few columns a row count that is allowed and one that is not
Shapes ==
    {sh \in ColumnCounts \X RowCounts : sh[1] = 48 \/ sh[2] \in {1, 1001}}

\* What file.read() and the reader may give
Contents ==
    {NoContent}
    \cup {[parses |-> TRUE, ncols |-> sh[1], nrows |-> sh[2], predict_raises |-> FALSE,
           bad |-> {}] : sh \in Shapes}
    \cup {[parses |-> TRUE, ncols |-> 48, nrows |-> 1, predict_raises |-> TRUE, bad |-> {}]}
    \cup {[parses |-> TRUE, ncols |-> 48, nrows |-> 1, predict_raises |-> FALSE, bad |-> {1}]}
    \cup {[parses |-> TRUE, ncols |-> 48, nrows |-> 1000, predict_raises |-> FALSE,
           bad |-> b] : b \in {{1}, {1, 1000}}}

\* len(list(models_dir.glob("*.pkl"))) on directory d
PklCount(d) ==
    Cardinality(d.model) + Cardinality(d.scaler) + Cardinality(d.label_encoders)

\* The directory as the handlers see it: whether it exists and how many
\* *.pkl files it holds
Disks ==
    {[exists |-> FALSE, pkl |-> 0]}
    \cup {[exists |-> TRUE, pkl |-> PklCount(d)] : d \in ServiceDirectories}

Init ==
    /\ disk \in Disks
    /\ started = FALSE
    /\ boot = Boot(0, FALSE)
    /\ predictor = NoPredictor
    /\ MODEL_AVAILABLE = FALSE
    /\ STARTUP_ERROR = NoError
    /\ nreq = 0
    /\ inflight = {}
    /\ responses = {}
    /\ PredictIdle
    /\ LoadIdle
    /\ SelectIdle

\* The module is imported: lines 23-73 run once, before any request
Startup ==
    /\ ~started
    /\ \E import_ok \in BOOLEAN, d \in ServiceDirectories :
       \E corrupt \in SUBSET {g \in Range(Groups) : d[g] # {}} :
         /\ disk.pkl = PklCount(d)
         /\ disk.exists \/ \A g \in Range(Groups) : d[g] = {}
         /\ LET r == ModuleInit(import_ok, disk.exists, d, corrupt)
            IN  /\ predictor' = r.predictor
                /\ MODEL_AVAILABLE' = r.MODEL_AVAILABLE
                /\ STARTUP_ERROR' = r.STARTUP_ERROR
                /\ boot' = r.boot
    /\ started' = TRUE
    /\ UNCHANGED <<disk, nreq, inflight, responses, predictVars, loadVars, selectVars>>

\* POST /predict
PredictRequest ==
    /\ started /\ nreq < MaxRequests
    /\ nreq' = nreq + 1
    /\ \E building \in Buildings :
         responses' = responses \cup {HandlePredict(predictor, MODEL_AVAILABLE, building)}
    /\ UNCHANGED <<disk, started, boot, predictor, MODEL_AVAILABLE, STARTUP_ERROR, inflight,
                   predictVars, loadVars, selectVars>>

\* POST /batch
BatchRequest ==
    /\ started /\ nreq < MaxRequests
    /\ \E b \in Batches :
         responses' = responses \cup {HandleBatch(predictor, MODEL_AVAILABLE, b.n, b.bad)}
    /\ nreq' = nreq + 1
    /\ UNCHANGED <<disk, started, boot, predictor, MODEL_AVAILABLE, STARTUP_ERROR, inflight,
                   predictVars, loadVars, selectVars>>

\* POST /upload, up to await file.read()
UploadBegin ==
    /\ started /\ nreq < MaxRequests
    /\ nreq' = nreq + 1
    /\ \E filename \in UploadNames :
         IF UploadRefusesType(filename)
         THEN /\ responses' = responses \cup
                    {Response("upload", filename, NoContent, 0, 400, FALSE, FALSE, NoBody)}
              /\ UNCHANGED inflight
         ELSE /\ inflight' = inflight \cup {[id |-> nreq + 1, filename |-> filename]}
              /\ UNCHANGED responses
    /\ UNCHANGED <<disk, started, boot, predictor, MODEL_AVAILABLE, STARTUP_ERROR,
                   predictVars, loadVars, selectVars>>

\* POST /upload, from the return of file.read() to the response
UploadFinish ==
    /\ \E r \in inflight : \E content \in Contents :
         LET response == HandleUpload(predictor, r.filename, content)
         IN  /\ responses' = responses \cup {response}
             /\ inflight' = inflight \ {r}
             /\ predictor' = PredictorAfterUpload(predictor, content, response)
    /\ UNCHANGED <<disk, started, boot, MODEL_AVAILABLE, STARTUP_ERROR, nreq,
                   predictVars, loadVars, selectVars>>

\* GET /models/info
ModelsInfoRequest ==
    /\ started /\ nreq < MaxRequests
    /\ nreq' = nreq + 1
    /\ responses' = responses \cup {HandleModelsInfo(predictor, MODEL_AVAILABLE, disk)}
    /\ UNCHANGED <<disk, started, boot, predictor, MODEL_AVAILABLE, STARTUP_ERROR, inflight,
                   predictVars, loadVars, selectVars>>

\* GET /status
StatusRequest ==
    /\ started /\ nreq < MaxRequests
    /\ nreq' = nreq + 1
    /\ responses' = responses \cup
           {HandleStatus(predictor, MODEL_AVAILABLE, STARTUP_ERROR, disk)}
    /\ UNCHANGED <<disk, started, boot, predictor, MODEL_AVAILABLE, STARTUP_ERROR, inflight,
                   predictVars, loadVars, selectVars>>

\* GET /health
HealthRequest ==
    /\ started /\ nreq < MaxRequests
    /\ nreq' = nreq + 1
    /\ responses' = responses \cup {HandleHealth(predictor, MODEL_AVAILABLE, disk)}
    /\ UNCHANGED <<disk, started, boot, predictor, MODEL_AVAILABLE, STARTUP_ERROR, inflight,
                   predictVars, loadVars, selectVars>>

Next ==
    \/ Startup
    \/ PredictRequest
    \/ BatchRequest
    \/ UploadBegin
    \/ UploadFinish
    \/ ModelsInfoRequest
    \/ StatusRequest
    \/ HealthRequest

Spec == Init /\ [][Next]_vars

-----------------------------------------------------------------------------
(* Claims about the service, checked under Spec                             *)

\* C1: once module initialisation has run, no step of any request, in any
\* interleaving, changes the module-level predictor (with its model,
\* scaler, label_encoders and feature_info) or MODEL_AVAILABLE.
C1_BundleNeverChanges ==
    [][started => (predictor' = predictor /\ MODEL_AVAILABLE' = MODEL_AVAILABLE)]_vars

\* Artifacts are loaded, the first request (an upload) is still suspended
\* in its read, and a later upload has meanwhile run predict to a 200
C1_Witness ==
    /\ MODEL_AVAILABLE
    /\ predictor.ref = "obj"
    /\ predictor.model.loaded /\ predictor.feature_info.loaded
    /\ \E r \in inflight : r.id = 1
    /\ \E resp \in responses :
          resp.kind = "upload" /\ resp.predict_called /\ resp.status = 200

\* name is some prefix followed by suffix
HasSuffix(name, suffix) ==
    \E k \in 0..Len(name) : name = SubSeq(name, 1, k) \o suffix

\* C10: an uploaded file whose name ends in .xlsx, .xls or .csv and that
\* parses gets status 400 exactly when it has fewer than 48 columns, more
\* than 1000 rows or no row; a file with any other name gets 400.
C10_UploadValidation ==
    \A resp \in responses :
        resp.kind = "upload" =>
            LET supported ==
                    \/ HasSuffix(resp.filename, <<".", "x", "l", "s", "x">>)
                    \/ HasSuffix(resp.filename, <<".", "x", "l", "s">>)
                    \/ HasSuffix(resp.filename, <<".", "c", "s", "v">>)
            IN  /\ ~supported => resp.status = 400
                /\ (supported /\ resp.content.parses) =>
                      (resp.status = 400 <=>
                          \/ resp.content.ncols < 48
                          \/ resp.content.nrows > 1000
                          \/ resp.content.nrows = 0)

\* One upload of 48 columns and 1000 rows answered 200 and one of 47
\* columns answered 400
C10_Witness ==
    /\ \E resp \in responses :
          /\ resp.kind = "upload" /\ resp.content.parses
          /\ resp.content.ncols = 48 /\ resp.content.nrows = 1000
          /\ resp.status = 200
    /\ \E resp \in responses :
          /\ resp.kind = "upload" /\ resp.content.parses
          /\ resp.content.ncols = 47 /\ resp.content.nrows = 1
          /\ resp.status = 400

\* C11: every 400 of /upload (file type, fewer than 48 columns, more than
\* 1000 rows, no row) is decided without reading the predictor and without
\* calling predictor.predict, and is the same response with and without a
\* loaded predictor; a 503 of /upload is only given to a file of a supported
\* type that parsed and passed the three shape checks.
C11_ValidationBeforeInference ==
    \A resp \in responses :
        resp.kind = "upload" =>
            /\ resp.status = 400 =>
                  /\ ~resp.consulted /\ ~resp.predict_called
                  /\ resp.body = NoBody
                  /\ resp.content # NoContent =>
                        \A pred \in {NoPredictor, PredictorObject(NewPredictor)} :
                            HandleUpload(pred, resp.filename, resp.content) = resp
            /\ resp.status = 503 =>
                  /\ \/ HasSuffix(resp.filename, <<".", "x", "l", "s", "x">>)
                     \/ HasSuffix(resp.filename, <<".", "x", "l", "s">>)
                     \/ HasSuffix(resp.filename, <<".", "c", "s", "v">>)
                  /\ resp.content.parses
                  /\ resp.content.ncols >= 48
                  /\ resp.content.nrows >= 1 /\ resp.content.nrows <= 1000
                  /\ ~resp.predict_called

\* No predictor is loaded; one upload of 47 columns and one of 1001 rows
\* were answered 400 and one well-shaped upload was answered 503
C11_Witness ==
    /\ started /\ predictor = NoPredictor
    /\ \E resp \in responses :
          /\ resp.kind = "upload" /\ resp.status = 400
          /\ resp.content.parses
          /\ resp.content.ncols = 47 \/ resp.content.nrows = 1001
    /\ \E resp \in responses :
          /\ resp.kind = "upload" /\ resp.status = 503
          /\ resp.content.ncols = 48 /\ resp.content.nrows = 1000

\* The module-level state says no artifacts are loaded
NotLoaded == ~MODEL_AVAILABLE \/ predictor = NoPredictor

\* The request body of a /predict or /batch response passes validation
BodyAccepted(resp) ==
    IF resp.kind = "predict"
    THEN /\ resp.content.floor_area_sqft > 0
         /\ resp.content.year_built >= 1800 /\ resp.content.year_built <= 2030
         /\ resp.content.num_floors >= 1
    ELSE resp.n <= 1000

\* C12 as stated: with no artifacts loaded every /predict and /batch
\* request, whatever its body, is answered 503 without a prediction, and
\* with artifacts loaded none is answered 503.
C12_Original ==
    \A resp \in responses :
        resp.kind \in {"predict", "batch"} =>
            /\ NotLoaded => (resp.status = 503 /\ resp.body.npredictions = 0)
            /\ ~NotLoaded => resp.status # 503

\* C12, amended: a /predict or /batch request whose body passes validation
\* is answered 503 exactly when no artifacts are loaded, and then without a
\* prediction; a body that fails validation is answered 422 without a
\* prediction whether or not artifacts are loaded.
C12_UnavailableIffNotLoaded ==
    \A resp \in responses :
        resp.kind \in {"predict", "batch"} =>
            /\ BodyAccepted(resp) => (resp.status = 503 <=> NotLoaded)
            /\ ~BodyAccepted(resp) => resp.status = 422
            /\ resp.status \in {503, 422} => resp.body.npredictions = 0

\* Without artifacts a valid /predict was answered 503 and a /batch of
\* 1001 buildings 422
C12_Witness ==
    /\ started /\ NotLoaded
    /\ \E resp \in responses :
          resp.kind = "predict" /\ BodyAccepted(resp) /\ resp.status = 503
    /\ \E resp \in responses :
          resp.kind = "batch" /\ resp.n = 1001 /\ resp.status = 422

\* C13: a /batch response over n <= 1000 buildings and an /upload response
\* over a file of n rows on which predictor.predict returned report
\* total_buildings = n, successful + failed = n and as many predictions as
\* successes, and every row that failed is counted, wherever it stands:
\* failed is the number of failing rows, the later rows being processed.
C13_PerRowFailuresCounted ==
    \A resp \in responses :
        (resp.kind \in {"batch", "upload"} /\ resp.status = 200) =>
            /\ resp.n <= 1000
            /\ resp.body.total = resp.n
            /\ resp.body.successful + resp.body.failed = resp.n
            /\ resp.body.npredictions = resp.body.successful
            /\ resp.body.failed = Cardinality(resp.content.bad \cap 1..resp.n)

\* An upload of 1000 rows whose first row failed and a batch of 1000
\* buildings whose first and last failed were both answered 200
C13_Witness ==
    /\ \E resp \in responses :
          /\ resp.kind = "upload" /\ resp.status = 200
          /\ resp.n = 1000 /\ resp.content.bad = {1}
          /\ resp.body.successful = 999
    /\ \E resp \in responses :
          /\ resp.kind = "batch" /\ resp.status = 200
          /\ resp.n = 1000 /\ resp.content.bad = {1, 1000}
          /\ resp.body.failed = 2

\* load_latest_models returned on the module-level predictor with all four
\* artifacts set
LoadCompleted ==
    /\ boot.load_returned
    /\ predictor # NoPredictor
    /\ predictor.model.loaded /\ predictor.scaler.loaded
    /\ predictor.label_encoders.loaded /\ predictor.feature_info.loaded

\* C18: module initialisation ends for every start-up outcome, and from
\* then on MODEL_AVAILABLE holds exactly when predictor is not None and
\* exactly when load_latest_models returned with all four artifacts set;
\* when MODEL_AVAILABLE is false STARTUP_ERROR is set and predictor is None;
\* load_latest_models is called at most once and nothing later changes what
\* start-up left.
C18_StartupNeverCrashes ==
    /\ [](started =>
            /\ MODEL_AVAILABLE <=> predictor # NoPredictor
            /\ MODEL_AVAILABLE <=> LoadCompleted
            /\ ~MODEL_AVAILABLE => (STARTUP_ERROR.set /\ predictor = NoPredictor)
            /\ MODEL_AVAILABLE => ~STARTUP_ERROR.set
            /\ boot.load_calls <= 1)
    /\ [][/\ ~started => started'
          /\ started => /\ started'
                         /\ boot' = boot
                         /\ STARTUP_ERROR' = STARTUP_ERROR]_vars

\* Start-up found a model file but no scaler: the load raised after the
\* model was read, and a request has been answered since
C18_Witness ==
    /\ started /\ ~MODEL_AVAILABLE
    /\ disk.exists /\ disk.pkl >= 1
    /\ boot.load_calls = 1 /\ ~boot.load_returned
    /\ STARTUP_ERROR.cause = "IndexError"
    /\ responses # {}

\* C19 as stated: /status reports models_available, /health reports
\* models_loaded and /models/info answers other than 503 exactly when the
\* artifacts were loaded at start-up (MODEL_AVAILABLE and predictor not
\* None), so the three never disagree.
C19_IntrospectionAgrees ==
    LET loaded == MODEL_AVAILABLE /\ predictor # NoPredictor
    IN  \A resp \in responses :
            /\ resp.kind = "status" => (resp.body.models_available <=> loaded)
            /\ resp.kind = "health" => (resp.body.models_loaded <=> loaded)
            /\ resp.kind = "models_info" => (resp.status # 503 <=> loaded)

-----------------------------------------------------------------------------
(* src/model_selector.py.  A building type or location is a Python str,    *)
(* held as the sequence of its characters; a directory or config file name *)
(* is only ever returned, and is held whole.  A dict is the sequence of    *)
(* its items <<key, value>> in insertion order.                            *)

HighRise          == <<"H", "i", "g", "h", "R", "i", "s", "e">>
Calgary           == <<"C", "a", "l", "g", "a", "r", "y">>
LargeOffice       == <<"L", "a", "r", "g", "e", "O", "f", "f", "i", "c", "e">>
LowRise           == <<"L", "o", "w", "R", "i", "s", "e">>
MediumOffice      == <<"M", "e", "d", "i", "u", "m", "O", "f", "f", "i", "c", "e">>
MidRise           == <<"M", "i", "d", "R", "i", "s", "e">>
SmallOffice       == <<"S", "m", "a", "l", "l", "O", "f", "f", "i", "c", "e">>
Halifax           == <<"H", "a", "l", "i", "f", "a", "x">>
Montreal          == <<"M", "o", "n", "t", "r", "e", "a", "l">>
Iqaluit           == <<"I", "q", "a", "l", "u", "i", "t">>
Toronto           == <<"T", "o", "r", "o", "n", "t", "o">>
Vancouver         == <<"V", "a", "n", "c", "o", "u", "v", "e", "r">>
Whitehorse        == <<"W", "h", "i", "t", "e", "h", "o", "r", "s", "e">>
Winnipeg          == <<"W", "i", "n", "n", "i", "p", "e", "g">>
MidriseApartment  == <<"M", "i", "d", "r", "i", "s", "e", "A", "p", "a", "r", "t", "m", "e", "n", "t">>
Lowrise           == <<"L", "o", "w", "r", "i", "s", "e">>
HighriseApartment == <<"H", "i", "g", "h", "r", "i", "s", "e", "A", "p", "a", "r", "t", "m", "e", "n", "t">>
Highrise          == <<"H", "i", "g", "h", "r", "i", "s", "e">>
Midrise           == <<"M", "i", "d", "r", "i", "s", "e">>

\* TRAINING_MODEL_DIRS: (building_type, location) -> directory name
TRAINING_MODEL_DIRS ==
    <<<< <<HighRise, Calgary>>,
         "training_model_2025-03-19 08-57-03.416313 - Highrise - Calgary" >>,
      << <<LargeOffice, Calgary>>,
         "training_model_2025-03-19 09-23-13.973331 - LargeOffice - Calgary" >>,
      << <<LowRise, Calgary>>,
         "training_model_2025-03-19 10-06-35.298415 - LowRise - Calgary" >>,
      << <<MediumOffice, Calgary>>,
         "training_model_2025-03-19 10-20-29.023979 - MediumOffice - Calgary" >>,
      << <<MidRise, Calgary>>,
         "training_model_2025-03-19 10-55-28.424891 - MidRise - Calgary" >>,
      << <<SmallOffice, Calgary>>,
         "training_model_2025-03-19 11-08-48.674609 - SmallOffice - Calgary" >>,
      << <<HighRise, Halifax>>,
         "training_model_2025-03-19 15-04-32.945649 - HighRise - Halifax" >>,
      << <<LargeOffice, Halifax>>,
         "training_model_2025-03-19 15-26-40.240822 - LargeOffice - Halifax" >>,
      << <<LowRise, Halifax>>,
         "training_model_2025-03-19 15-54-38.519386 - LowRise - Halifax" >>,
      << <<MediumOffice, Halifax>>,
         "training_model_2025-03-20 08-30-26.859352 - MediumOffice - Halifax" >>,
      << <<MidRise, Halifax>>,
         "training_model_2025-03-20 08-57-16.737131 - MidRise - Halifax" >>,
      << <<SmallOffice, Halifax>>,
         "training_model_2025-03-20 09-19-06.163289 - SmallOffice - Halifax" >>,
      << <<HighRise, Montreal>>,
         "training_model_2025-03-20 10-00-45.712085 - HighRise - Montreal" >>,
      << <<LargeOffice, Montreal>>,
         "training_model_2025-03-20 10-09-07.224874 - LargeOffice - Montreal" >>,
      << <<LowRise, Montreal>>,
         "training_model_2025-03-20 10-57-23.825582 - LowRise - Montreal" >>,
      << <<MediumOffice, Montreal>>,
         "training_model_2025-03-20 11-15-01.623691 - MediumOffice - Montreal" >>,
      << <<MidRise, Montreal>>,
         "training_model_2025-03-20 12-35-20.761539 - MidRise - Montreal" >>,
      << <<SmallOffice, Montreal>>,
         "training_model_2025-03-20 12-44-48.193300 - SmallOffice - Montreal" >>,
      << <<HighRise, Iqaluit>>,
         "training_model_2025-03-20 13-25-38.205812 - HighRise - Iqaluit" >>,
      << <<LargeOffice, Iqaluit>>,
         "training_model_2025-03-20 13-32-56.926225 - LargeOffice - Iqaluit" >>,
      << <<LowRise, Iqaluit>>,
         "training_model_2025-03-20 14-13-54.240044 - LowRise - Iqaluit" >>,
      << <<MediumOffice, Iqaluit>>,
         "training_model_2025-03-20 14-20-58.003754 - MediumOffice - Iqaluit" >>,
      << <<MidRise, Iqaluit>>,
         "training_model_2025-03-20 15-04-05.433414 - MidRise - Iqaluit" >>,
      << <<SmallOffice, Iqaluit>>,
         "training_model_2025-03-20 15-15-24.992153 - SmallOffice - Iqaluit" >>,
      << <<HighRise, Toronto>>,
         "training_model_2025-03-21 14-22-11.736787 - HighRise - Toronto" >>,
      << <<LargeOffice, Toronto>>,
         "training_model_2025-03-21 14-48-01.109426 - LargeOffice - Toronto" >>,
      << <<LowRise, Toronto>>,
         "training_model_2025-03-21 15-16-19.288272 - Lowrise - Toronto" >>,
      << <<MediumOffice, Toronto>>,
         "training_model_2025-03-21 15-39-23.554654 - MediumOffice - Toronto" >>,
      << <<MidRise, Toronto>>,
         "training_model_2025-03-24 09-36-33.111622 - MidRise - Toronto" >>,
      << <<SmallOffice, Toronto>>,
         "training_model_2025-03-24 09-50-49.528457 - SmallOffice - Toronto" >>,
      << <<HighRise, Vancouver>>,
         "training_model_2025-03-24 10-22-46.475366 - HighRise - Vancouver" >>,
      << <<LargeOffice, Vancouver>>,
         "training_model_2025-03-24 10-56-15.604135 - LargeOffice - Vancouver" >>,
      << <<LowRise, Vancouver>>,
         "training_model_2025-03-24 11-22-44.767301 - LowRise - Vancouver" >>,
      << <<MediumOffice, Vancouver>>,
         "training_model_2025-03-24 12-00-25.685860 - MediumOffice - Vancouver" >>,
      << <<MidRise, Vancouver>>,
         "training_model_2025-03-24 12-07-39.982111 - MidRise - Vancouver" >>,
      << <<SmallOffice, Vancouver>>,
         "training_model_2025-03-24 12-37-33.522006 - SmallOffice - Vancouver" >>,
      << <<HighRise, Whitehorse>>,
         "training_model_2025-03-24 13-06-11.451567 - HighRise - Whitehorse" >>,
      << <<LargeOffice, Whitehorse>>,
         "training_model_2025-03-24 13-54-31.065170 - LargeOffice - Whitehorse" >>,
      << <<LowRise, Whitehorse>>,
         "training_model_2025-03-24 14-03-20.048528 - LowRise - Whitehorse" >>,
      << <<MediumOffice, Whitehorse>>,
         "training_model_2025-03-24 14-59-59.300675 - MediumOffice - Whitehorse" >>,
      << <<MidRise, Whitehorse>>,
         "training_model_2025-03-24 15-19-57.897188 - MidRise - Whitehorse" >>,
      << <<SmallOffice, Whitehorse>>,
         "training_model_2025-03-24 15-48-07.257346 - SmallOffice - Whitehorse" >>,
      << <<HighRise, Winnipeg>>,
         "training_model_2025-03-25 08-25-03.069892 - HighRise - Winnipeg" >>,
      << <<LargeOffice, Winnipeg>>,
         "training_model_2025-03-25 08-58-52.965988 - LargeOffice - Winnipeg" >>,
      << <<LowRise, Winnipeg>>,
         "training_model_2025-03-25 09-06-30.330159 - LowRise - Winnipeg" >>,
      << <<MediumOffice, Winnipeg>>,
         "training_model_2025-03-25 09-48-30.480694 - MediumOffice - Winnipeg" >>,
      << <<MidRise, Winnipeg>>,
         "training_model_2025-03-25 09-56-57.950580 - MidRise -Winnipeg" >>,
      << <<SmallOffice, Winnipeg>>,
         "training_model_2025-03-25 10-45-10.525416 - SmallOffice - Winnipeg" >>>>

\* BUILDING_TYPE_ALIASES: legacy building type name -> canonical name
BUILDING_TYPE_ALIASES ==
    <<<<MidriseApartment, MidRise>>,
      <<Lowrise, LowRise>>,
      <<HighriseApartment, HighRise>>,
      <<Highrise, HighRise>>,
      <<Midrise, MidRise>>,
      <<LargeOffice, LargeOffice>>,
      <<MediumOffice, MediumOffice>>,
      <<SmallOffice, SmallOffice>>>>

\* MODEL_CONFIG_MAP: (building_type, location) -> config file
MODEL_CONFIG_MAP ==
    <<<< <<MidriseApartment, Toronto>>, "input_config_midrise_toronto.yml" >>,
      << <<Lowrise, Toronto>>, "input_config_lowrise_toronto.yml" >>>>

DEFAULT_CONFIG == "input_config_midrise_toronto.yml"

\* key in d, d.keys() and d[key] for a dict d
DictKeys(d)     == {d[i][1] : i \in DOMAIN d}
DictGet(d, key) == d[CHOOSE i \in DOMAIN d : d[i][1] = key][2]

\* The characters str.strip() removes from both ends
Whitespace == {" ", "\t", "\n"}

\* s.strip()
Strip(s) ==
    LET kept == {i \in DOMAIN s : s[i] \notin Whitespace}
    IN  IF kept = {} THEN <<>>
        ELSE SubSeq(s, CHOOSE i \in kept : \A j \in kept : i <= j,
                       CHOOSE i \in kept : \A j \in kept : i >= j)

UpperCase == <<"A", "B", "C", "D", "E", "F", "G", "H", "I", "J", "K", "L", "M",
               "N", "O", "P", "Q", "R", "S", "T", "U", "V", "W", "X", "Y", "Z">>
LowerCase == <<"a", "b", "c", "d", "e", "f", "g", "h", "i", "j", "k", "l", "m",
               "n", "o", "p", "q", "r", "s", "t", "u", "v", "w", "x", "y", "z">>

\* s.lower(), character by character
LowerChar(ch) ==
    IF \E i \in DOMAIN UpperCase : UpperCase[i] = ch
    THEN LowerCase[CHOOSE i \in DOMAIN UpperCase : UpperCase[i] = ch]
    ELSE ch
Lower(s) == [i \in DOMAIN s |-> LowerChar(s[i])]

\* Variant of ApplyAlias: the alias table is not consulted
ApplyAlias_None(building_type) == building_type

\* if building_type in BUILDING_TYPE_ALIASES:
\*     building_type = BUILDING_TYPE_ALIASES[building_type]
ApplyAlias(building_type) ==
    IF building_type \in DictKeys(BUILDING_TYPE_ALIASES)
    THEN DictGet(BUILDING_TYPE_ALIASES, building_type)
    ELSE building_type

\* Variant of CaseInsensitiveMatch: the table's key is not lowered
CaseInsensitiveMatch_KeyNotLowered(key, key_lower) ==
    key[1] = key_lower[1] /\ key[2] = key_lower[2]

\* if bt.lower() == key_lower[0] and loc.lower() == key_lower[1], key being
\* the table's (bt, loc)
CaseInsensitiveMatch(key, key_lower) ==
    Lower(key[1]) = key_lower[1] /\ Lower(key[2]) = key_lower[2]

\* An outcome: the exception raised ("" when the call returns) and the
\* value returned
Returns(value) == [raised |-> "", value |-> value]
Raises(error)  == [raised |-> error, value |-> ""]

\* Variant of NoTrainingModel: falls back to the Toronto MidRise directory
NoTrainingModel_Fallback(building_type, location) ==
    Returns(DictGet(TRAINING_MODEL_DIRS, <<MidRise, Toronto>>))

\* raise ValueError(f"No training model found for ...")
NoTrainingModel(building_type, location) == Raises("ValueError")

\* get_training_model_dir(building_type, location)
get_training_model_dir(building_type_arg, location_arg) ==
    LET building_type == ApplyAlias(Strip(building_type_arg))
        location      == Strip(location_arg)
        key           == <<building_type, location>>
        key_lower     == <<Lower(building_type), Lower(location)>>
        found         == {i \in DOMAIN TRAINING_MODEL_DIRS :
                            CaseInsensitiveMatch(TRAINING_MODEL_DIRS[i][1], key_lower)}
    IN  IF key \in DictKeys(TRAINING_MODEL_DIRS)
        THEN Returns(DictGet(TRAINING_MODEL_DIRS, key))
        ELSE IF found # {}
        THEN Returns(TRAINING_MODEL_DIRS[CHOOSE i \in found : \A j \in found : i <= j][2])
        ELSE NoTrainingModel(building_type, location)

\* Variant of ConfigWithoutModel: the selector's error is passed on
ConfigWithoutModel_Raises(error) == Raises(error)

\* except ValueError: pass, then the fallback return DEFAULT_CONFIG
ConfigWithoutModel(error) ==
    IF error = "ValueError" THEN Returns(DEFAULT_CONFIG) ELSE Raises(error)

\* get_config_for_model(building_type, location)
get_config_for_model(building_type_arg, location_arg) ==
    LET building_type == Strip(building_type_arg)
        location      == Strip(location_arg)
        key           == <<building_type, location>>
    IN  IF key \in DictKeys(MODEL_CONFIG_MAP)
        THEN Returns(DictGet(MODEL_CONFIG_MAP, key))
        ELSE LET training_dir == get_training_model_dir(building_type, location)
             IN  IF training_dir.raised = ""
                 THEN Returns(DEFAULT_CONFIG)
                 ELSE ConfigWithoutModel(training_dir.raised)

\* Variant of AppendBuildingType: the location's list is replaced by the
\* one building type
AppendBuildingType_Overwrite(supported, building_type, location) ==
    LET i == CHOOSE j \in DOMAIN supported : supported[j][1] = location
    IN  [supported EXCEPT ![i] = <<location, <<building_type>>>>]

\* supported[location].append(building_type), location being a key
AppendBuildingType(supported, building_type, location) ==
    LET i == CHOOSE j \in DOMAIN supported : supported[j][1] = location
    IN  [supported EXCEPT ![i] = <<location, Append(@[2], building_type)>>]

\* The for loop of get_supported_models from the n-th key of the table on,
\* supported being the dict built so far:
\*     if location not in supported: supported[location] = []
\*     supported[location].append(building_type)
RECURSIVE SupportedLoop(_, _)
SupportedLoop(supported, n) ==
    CASE n > Len(TRAINING_MODEL_DIRS) -> supported
      [] n <= Len(TRAINING_MODEL_DIRS)
           /\ TRAINING_MODEL_DIRS[n][1][2] \notin DictKeys(supported) ->
             SupportedLoop(AppendBuildingType(
                               Append(supported, <<TRAINING_MODEL_DIRS[n][1][2], <<>>>>),
                               TRAINING_MODEL_DIRS[n][1][1], TRAINING_MODEL_DIRS[n][1][2]),
                           n + 1)
      [] OTHER ->
             SupportedLoop(AppendBuildingType(supported,
                               TRAINING_MODEL_DIRS[n][1][1], TRAINING_MODEL_DIRS[n][1][2]),
                           n + 1)

\* get_supported_models(): the dict location -> list of building types
get_supported_models == SupportedLoop(<<>>, 1)

\* list_all_supported_combinations(): list(TRAINING_MODEL_DIRS.keys())
list_all_supported_combinations ==
    [i \in DOMAIN TRAINING_MODEL_DIRS |-> TRAINING_MODEL_DIRS[i][1]]

-----------------------------------------------------------------------------
(* SpecSelect: a caller calls the selector's functions on strings          *)

Warehouse == <<"W", "a", "r", "e", "h", "o", "u", "s", "e">>
Ottawa    == <<"O", "t", "t", "a", "w", "a">>

\* s with every letter in upper case
Upper(s) ==
    [i \in DOMAIN s |->
        IF \E k \in DOMAIN LowerCase : LowerCase[k] = s[i]
        THEN UpperCase[CHOOSE k \in DOMAIN LowerCase : LowerCase[k] = s[i]]
        ELSE s[i]]

\* The spellings of a name a caller may pass: as it is, in lower and in
\* upper case, and with whitespace around it
Spellings(name) ==
    {name, Lower(name), Upper(name), <<" ">> \o name, name \o <<"\t", "\n">>,
     <<" ">> \o Lower(name) \o <<" ">>}

BuildingTypeInputs ==
    UNION {Spellings(key[1]) : key \in DictKeys(TRAINING_MODEL_DIRS)}
    \cup UNION {Spellings(a) : a \in DictKeys(BUILDING_TYPE_ALIASES)}
    \cup {Warehouse, <<>>, <<" ">>}

LocationInputs ==
    {key[2] : key \in DictKeys(TRAINING_MODEL_DIRS)}
    \cup Spellings(Toronto) \cup Spellings(Winnipeg)
    \cup {Ottawa, <<>>}

\* The caller holds a building type and a location and has called nothing
InitSelect ==
    /\ lookup \in {[NoLookup EXCEPT !.building_type = b, !.location = l] :
                      b \in BuildingTypeInputs, l \in LocationInputs}
    /\ PredictIdle
    /\ LoadIdle
    /\ ServiceIdle

\* get_training_model_dir(building_type, location)
CallGetTrainingModelDir ==
    /\ lookup.fn = ""
    /\ lookup' = [lookup EXCEPT
                    !.fn = "get_training_model_dir",
                    !.out = get_training_model_dir(lookup.building_type, lookup.location)]
    /\ UNCHANGED <<predictVars, loadVars, serviceVars>>

\* get_config_for_model(building_type, location)
CallGetConfigForModel ==
    /\ lookup.fn = ""
    /\ lookup' = [lookup EXCEPT
                    !.fn = "get_config_for_model",
                    !.out = get_config_for_model(lookup.building_type, lookup.location)]
    /\ UNCHANGED <<predictVars, loadVars, serviceVars>>

\* get_supported_models(), which takes no argument
CallGetSupportedModels ==
    /\ lookup.fn = ""
    /\ lookup' = [lookup EXCEPT !.fn = "get_supported_models",
                                !.out = Returns(get_supported_models)]
    /\ UNCHANGED <<predictVars, loadVars, serviceVars>>

\* list_all_supported_combinations(), which takes no argument
CallListAllSupportedCombinations ==
    /\ lookup.fn = ""
    /\ lookup' = [lookup EXCEPT !.fn = "list_all_supported_combinations",
                                !.out = Returns(list_all_supported_combinations)]
    /\ UNCHANGED <<predictVars, loadVars, serviceVars>>

NextSelect ==
    \/ CallGetTrainingModelDir
    \/ CallGetConfigForModel
    \/ CallGetSupportedModels
    \/ CallListAllSupportedCombinations

SpecSelect == InitSelect /\ [][NextSelect]_vars

-----------------------------------------------------------------------------
(* Claims about the selector, checked under SpecSelect                      *)

\* Two characters are the same letter in either case, or the same character
SameLetter(a, b) ==
    \/ a = b
    \/ \E k \in 1..26 : {a, b} = {UpperCase[k], LowerCase[k]}

\* Two strings are equal when letter case is ignored
SameIgnoringCase(a, b) ==
    Len(a) = Len(b) /\ \A i \in 1..Len(a) : SameLetter(a[i], b[i])

\* What can be left of s when whitespace is removed from both ends and none
\* is left there
Trimmings(s) ==
    {SubSeq(s, i + 1, j) : <<i, j>> \in
        {ij \in (0..Len(s)) \X (0..Len(s)) :
            /\ ij[1] <= ij[2]
            /\ \A k \in 1..ij[1] : s[k] \in {" ", "\t", "\n"}
            /\ \A k \in (ij[2] + 1)..Len(s) : s[k] \in {" ", "\t", "\n"}
            /\ ij[1] < ij[2] => /\ s[ij[1] + 1] \notin {" ", "\t", "\n"}
                                /\ s[ij[2]] \notin {" ", "\t", "\n"}}}

\* s with surrounding whitespace removed
Trimmed(s) == CHOOSE t \in Trimmings(s) : TRUE

\* The canonical name of a building type: an alias's target, else itself
Canonical(t) ==
    IF \E i \in DOMAIN BUILDING_TYPE_ALIASES : BUILDING_TYPE_ALIASES[i][1] = t
    THEN BUILDING_TYPE_ALIASES[CHOOSE i \in DOMAIN BUILDING_TYPE_ALIASES :
                                    BUILDING_TYPE_ALIASES[i][1] = t][2]
    ELSE t

\* The table entries a (building type, location) pair equals ignoring case
EntriesIgnoringCase(bt, loc) ==
    {i \in DOMAIN TRAINING_MODEL_DIRS :
        /\ SameIgnoringCase(bt, TRAINING_MODEL_DIRS[i][1][1])
        /\ SameIgnoringCase(loc, TRAINING_MODEL_DIRS[i][1][2])}

\* C14: a call of get_training_model_dir whose building type is a legacy
\* name of the alias table has the outcome the call with the canonical
\* name and the same location has; for MidriseApartment in Toronto that is
\* the directory registered for (MidRise, Toronto).
C14_AliasSameAsCanonical ==
    lookup.fn = "get_training_model_dir" =>
        /\ \A i \in DOMAIN BUILDING_TYPE_ALIASES :
              lookup.building_type = BUILDING_TYPE_ALIASES[i][1] =>
                 lookup.out = get_training_model_dir(BUILDING_TYPE_ALIASES[i][2],
                                                     lookup.location)
        /\ (lookup.building_type = MidriseApartment /\ lookup.location = Toronto) =>
              lookup.out = [raised |-> "",
                            value |-> "training_model_2025-03-24 09-36-33.111622 - MidRise - Toronto"]

\* get_training_model_dir("MidriseApartment", "Toronto") has returned
C14_Witness ==
    /\ lookup.fn = "get_training_model_dir"
    /\ lookup.building_type = MidriseApartment /\ lookup.location = Toronto
    /\ lookup.out.raised = ""

\* No two keys of TRAINING_MODEL_DIRS are equal when case is ignored
NoTwoKeysEqualIgnoringCase ==
    \A i, j \in DOMAIN TRAINING_MODEL_DIRS :
        (/\ SameIgnoringCase(TRAINING_MODEL_DIRS[i][1][1], TRAINING_MODEL_DIRS[j][1][1])
         /\ SameIgnoringCase(TRAINING_MODEL_DIRS[i][1][2], TRAINING_MODEL_DIRS[j][1][2]))
        => i = j

\* C15: when the trimmed building type and the trimmed location equal a
\* table key with letter case ignored, get_training_model_dir returns that
\* key's directory; no two table keys are equal ignoring case.
C15_CaseInsensitiveRetry ==
    /\ NoTwoKeysEqualIgnoringCase
    /\ lookup.fn = "get_training_model_dir" =>
          \A i \in EntriesIgnoringCase(Trimmed(lookup.building_type), Trimmed(lookup.location)) :
              lookup.out = [raised |-> "", value |-> TRAINING_MODEL_DIRS[i][2]]

\* get_training_model_dir(" midrise ", "TORONTO") has returned: no exact
\* key and no alias, found by the case-insensitive scan
C15_Witness ==
    /\ lookup.fn = "get_training_model_dir"
    /\ lookup.building_type = <<" ", "m", "i", "d", "r", "i", "s", "e", " ">>
    /\ lookup.location = <<"T", "O", "R", "O", "N", "T", "O">>
    /\ lookup.out.value = "training_model_2025-03-24 09-36-33.111622 - MidRise - Toronto"

\* C16: get_training_model_dir raises ValueError exactly when the trimmed
\* and alias-mapped building type with the trimmed location equals no
\* table key, exactly or ignoring case; otherwise it returns a directory
\* name of the table, and it does nothing else.
C16_NoMatchRaises ==
    lookup.fn = "get_training_model_dir" =>
        LET entries == EntriesIgnoringCase(Canonical(Trimmed(lookup.building_type)),
                                           Trimmed(lookup.location))
        IN  /\ lookup.out.raised \in {"", "ValueError"}
            /\ lookup.out.raised = "ValueError" <=> entries = {}
            /\ lookup.out.raised = "ValueError" => lookup.out.value = ""
            /\ lookup.out.raised = "" =>
                  \E i \in DOMAIN TRAINING_MODEL_DIRS :
                      lookup.out.value = TRAINING_MODEL_DIRS[i][2]

\* get_training_model_dir("Warehouse", "Toronto") has raised ValueError
C16_Witness ==
    /\ lookup.fn = "get_training_model_dir"
    /\ lookup.building_type = <<"W", "a", "r", "e", "h", "o", "u", "s", "e">>
    /\ lookup.location = Toronto
    /\ lookup.out.raised = "ValueError"

\* C17: get_config_for_model always returns: the MODEL_CONFIG_MAP entry
\* when the trimmed pair is a key of that map, and otherwise
\* "input_config_midrise_toronto.yml", whether or not a training directory
\* exists for the pair.
C17_ConfigNeverFails ==
    lookup.fn = "get_config_for_model" =>
        LET bt  == Trimmed(lookup.building_type)
            loc == Trimmed(lookup.location)
            hit == {i \in DOMAIN MODEL_CONFIG_MAP : MODEL_CONFIG_MAP[i][1] = <<bt, loc>>}
        IN  /\ lookup.out.raised = ""
            /\ \A i \in hit : lookup.out.value = MODEL_CONFIG_MAP[i][2]
            /\ hit = {} => lookup.out.value = "input_config_midrise_toronto.yml"

\* get_config_for_model("Warehouse", "Ottawa") has returned, a pair for
\* which get_training_model_dir raises
C17_Witness ==
    /\ lookup.fn = "get_config_for_model"
    /\ lookup.building_type = <<"W", "a", "r", "e", "h", "o", "u", "s", "e">>
    /\ lookup.location = <<"O", "t", "t", "a", "w", "a">>
    /\ get_training_model_dir(lookup.building_type, lookup.location).raised = "ValueError"
    /\ lookup.out.raised = ""

\* The (building type, location) pairs a get_supported_models() result lists
PairsOfSupported(supported) ==
    UNION {{<<supported[i][2][k], supported[i][1]>> : k \in DOMAIN supported[i][2]} :
            i \in DOMAIN supported}

\* get_training_model_dir on pair returns the directory the table
\* registers under exactly that pair
ResolvesToOwnEntry(pair) ==
    /\ \E i \in DOMAIN TRAINING_MODEL_DIRS : TRAINING_MODEL_DIRS[i][1] = pair
    /\ \A i \in DOMAIN TRAINING_MODEL_DIRS :
          TRAINING_MODEL_DIRS[i][1] = pair =>
             get_training_model_dir(pair[1], pair[2]) =
                 [raised |-> "", value |-> TRAINING_MODEL_DIRS[i][2]]

\* C21: every pair list_all_supported_combinations() returns, and every
\* building type get_supported_models() lists under a location, resolves
\* with get_training_model_dir to the directory registered for exactly
\* that key; the two results list the same pairs, each once, and a call of
\* get_training_model_dir on a listed pair has that outcome.
C21_AdvertisedCombinationsResolve ==
    /\ lookup.fn = "list_all_supported_combinations" =>
          /\ \A k \in DOMAIN lookup.out.value : ResolvesToOwnEntry(lookup.out.value[k])
          /\ Range(lookup.out.value) = PairsOfSupported(get_supported_models)
          /\ Len(lookup.out.value) = Cardinality(Range(lookup.out.value))
    /\ lookup.fn = "get_supported_models" =>
          /\ \A pair \in PairsOfSupported(lookup.out.value) : ResolvesToOwnEntry(pair)
          /\ PairsOfSupported(lookup.out.value) = Range(list_all_supported_combinations)
          /\ \A i, j \in DOMAIN lookup.out.value :
                lookup.out.value[i][1] = lookup.out.value[j][1] => i = j
          /\ \A i \in DOMAIN lookup.out.value :
                Len(lookup.out.value[i][2]) = Cardinality(Range(lookup.out.value[i][2]))
    /\ lookup.fn = "get_training_model_dir" =>
          \A i \in DOMAIN TRAINING_MODEL_DIRS :
              (/\ <<lookup.building_type, lookup.location>> = TRAINING_MODEL_DIRS[i][1]
               /\ TRAINING_MODEL_DIRS[i][1] \in Range(list_all_supported_combinations))
              => lookup.out = [raised |-> "", value |-> TRAINING_MODEL_DIRS[i][2]]

\* get_supported_models() has returned 8 locations of 6 building types
\* each, LargeOffice (also an alias key) among those of Winnipeg
C21_Witness ==
    /\ lookup.fn = "get_supported_models"
    /\ Len(lookup.out.value) = 8
    /\ \A i \in DOMAIN lookup.out.value : Len(lookup.out.value[i][2]) = 6
    /\ \E i \in DOMAIN lookup.out.value :
          /\ lookup.out.value[i][1] = Winnipeg
          /\ LargeOffice \in Range(lookup.out.value[i][2])

\* C22 as stated: a call of get_config_for_model whose building type is a
\* legacy name of the alias table returns the config file the call with
\* the canonical name and the same location returns.
C22_ConfigAliasSameAsCanonical ==
    lookup.fn = "get_config_for_model" =>
        \A i \in DOMAIN BUILDING_TYPE_ALIASES :
            lookup.building_type = BUILDING_TYPE_ALIASES[i][1] =>
               lookup.out = get_config_for_model(BUILDING_TYPE_ALIASES[i][2], lookup.location)

=============================================================================
